---- MODULE Spec2Model ----
(***************************************************************************)
(* Model of the coding agent's workflow graph (agent/graph.py) and of its  *)
(* node functions (agent/nodes.py).                                        *)
(*                                                                         *)
(* Text is modelled as a sequence of atoms.  An atom is a piece of text    *)
(* the program never looks inside: a word, a separator, a file name.  The  *)
(* regular expressions, the deny-list containment test, strip(), lower()   *)
(* and the f-strings of the source operate on these sequences.             *)
(*                                                                         *)
(* The agent state (a Python dict, TypedDict total=False) is a function    *)
(* whose DOMAIN is the set of keys present.                                *)
(***************************************************************************)
EXTENDS Naturals, Sequences, FiniteSets, TLC

VARIABLES
    pc,        \* the node the graph runs next ("END" when the run is over)
    state,     \* the CodeAgentState dict threaded through the nodes
    disk,      \* the filesystem: path -> content of the files that exist
    trace,     \* history: the nodes that have run, in order
    writes,    \* history: the assignments state[key] = ..., as <<node, key>>
    llm,       \* history: the calls of the text generator, [node, prompt, out]
    other,     \* the second invocation, when two run: its pc, state and histories
    start      \* history, when two run: the contexts and the filesystem at the start

vars == <<pc, state, disk, trace, writes, llm, other, start>>

----------------------------------------------------------------------------
(* Bounds *)

MaxQueryParts == 2

----------------------------------------------------------------------------
(* Text *)

Whitespace == {" ", "\n"}

\* str.lower() of one atom: the atoms of the model that hold upper-case letters
LowerAtom(a) ==
    CASE a = ".ENV" -> ".env"
      [] a = "D:" -> "d:"
      [] a = "C:" -> "c:"
      [] a = "Windows" -> "windows"
      [] a = "Program Files" -> "program files"
      [] a = "Debug" -> "debug"
      [] a = "COMMON" -> "common"
      [] a = "Error: " -> "error: "
      [] a = "B.PY" -> "b.py"
      [] a = "Zed.txt" -> "zed.txt"
      [] OTHER -> a

Lower(s) == [i \in 1..Len(s) |-> LowerAtom(s[i])]

RECURSIVE LStrip(_)
LStrip(s) == IF s # <<>> /\ Head(s) \in Whitespace THEN LStrip(Tail(s)) ELSE s

RECURSIVE RStrip(_)
RStrip(s) ==
    IF s # <<>> /\ s[Len(s)] \in Whitespace THEN RStrip(SubSeq(s, 1, Len(s) - 1)) ELSE s

Strip(s) == RStrip(LStrip(s))

\* lit occurs in s at position p
OccursAt(s, lit, p) ==
    /\ p >= 1
    /\ p + Len(lit) - 1 <= Len(s)
    /\ \A k \in 1..Len(lit) : s[p + k - 1] = lit[k]

\* Python's `lit in s`
Contains(s, lit) == \E p \in 1..(Len(s) + 1) : OccursAt(s, lit, p)

RECURSIVE Join(_, _)
Join(words, sep) ==
    IF words = <<>> THEN <<>>
    ELSE IF Len(words) = 1 THEN words[1]
    ELSE words[1] \o sep \o Join(Tail(words), sep)

\* truthiness of a str
Truthy(v) == v # <<>>

\* The number of characters of an atom (all are ASCII: as many bytes): the
\* atoms of the queries and of the files of the model
AtomLen(a) ==
    CASE a \in {" ", "/", "\\", "\n"} -> 1
      [] a = "D:" -> 2
      [] a \in {"tmp", "old", "out"} -> 3
      [] a \in {"read", "file", "code", "unit", "test", ".ENV", "a.py", "x.py", "boom",
                 "or: "} -> 4
      [] a \in {"hello", "x = 1", "notes"} -> 5
      [] a = "review" -> 6
      [] a \in {"big.txt", "max.txt", "Error: "} -> 7
      [] a \in {"refactor", "optimize"} -> 8
      [] a \in {"documentation", "def f(): pass"} -> 13
      [] a = "#8000 characters#" -> 8000
      [] a = "#1040576 more characters#" -> 1040576
      [] a = "#1040577 more characters#" -> 1040577

\* len(text)
RECURSIVE len(_)
len(text) == IF text = <<>> THEN 0 ELSE AtomLen(Head(text)) + len(Tail(text))

\* text[:n]; an atom the cut falls in is left as a mark of the cut
RECURSIVE Slice(_, _)
Slice(text, n) ==
    IF text = <<>> \/ n = 0 THEN <<>>
    ELSE IF AtomLen(Head(text)) <= n
    THEN <<Head(text)>> \o Slice(Tail(text), n - AtomLen(Head(text)))
    ELSE <<"#cut#">>

\* The characters of atom a after its first n, for the cuts the model makes
AtomRest(a, n) ==
    CASE a = "Error: " /\ n = 3 -> "or: "

\* text[n:]
RECURSIVE Drop(_, _)
Drop(text, n) ==
    IF text = <<>> THEN <<>>
    ELSE IF n = 0 THEN text
    ELSE IF AtomLen(Head(text)) <= n
    THEN Drop(Tail(text), n - AtomLen(Head(text)))
    ELSE <<AtomRest(Head(text), n)>> \o Tail(text)

\* What a file that held old holds after new is written at its start
\* without truncating it
WriteOver(old, new) == new \o Drop(old, len(new))

----------------------------------------------------------------------------
(* The state dict *)

Get(s, k, d) == IF k \in DOMAIN s THEN s[k] ELSE d

Put(s, k, v) == [x \in (DOMAIN s) \cup {k} |-> IF x = k THEN v ELSE s[x]]

\* d.get(k) is truthy
Has(s, k) == k \in DOMAIN s /\ Truthy(s[k])

----------------------------------------------------------------------------
(* agent/constants.py *)

GENERATE == "generate"
DEBUG == "debug"
EXPLAIN == "explain"
FILE_READ == "file_read"
FILE_EDIT == "file_edit"
FOLDER_LIST == "folder_list"
CODE_REVIEW == "code_review"
REFACTOR == "refactor"
TEST_GEN == "test_gen"
DOCUMENTATION == "documentation"
OPTIMIZE == "optimize"
COMMON == "common"

\* class Intent(str, Enum): the values, in declaration order
Intent ==
    << GENERATE, DEBUG, EXPLAIN, FILE_READ, FILE_EDIT, FOLDER_LIST,
       CODE_REVIEW, REFACTOR, TEST_GEN, DOCUMENTATION, OPTIMIZE, COMMON >>

BLOCKED_PATHS ==
    << <<"/", "etc">>, <<"/", "usr">>, <<".env">>, <<".ssh">>,
       <<"C:", "\\", "Windows">>, <<"C:", "\\", "Program Files">>,
       <<"node_modules">>, <<"__pycache__">>, <<".git">> >>

\* The text after the last "." of an atom ("" when it has none)
DotSuffix(a) ==
    CASE a \in {"a.py", "x.py", "b.py"} -> "py"
      [] a \in {"big.txt", "max.txt", "Zed.txt", "zed.txt"} -> "txt"
      [] a = "B.PY" -> "PY"
      [] a = ".env" -> "env"
      [] a = ".git" -> "git"
      [] a = ".ssh" -> "ssh"
      [] a = ".ENV" -> "ENV"
      [] OTHER -> ""

\* Atoms that are a dot followed by a name only: os.path.splitext gives them
\* no extension
DotFiles == {".env", ".ENV", ".git", ".ssh"}

\* CODE_EXTENSIONS, keyed by the extension without its dot
CODE_EXTENSIONS(ext) ==
    CASE ext = "py" -> <<"python">>
      [] ext \in {"js", "jsx"} -> <<"javascript">>
      [] ext \in {"ts", "tsx"} -> <<"typescript">>
      [] ext = "java" -> <<"java">>
      [] ext = "cpp" -> <<"cpp">>
      [] ext = "c" -> <<"c">>
      [] ext = "cs" -> <<"csharp">>
      [] ext = "go" -> <<"go">>
      [] ext = "rs" -> <<"rust">>
      [] ext = "rb" -> <<"ruby">>
      [] ext = "php" -> <<"php">>
      [] ext = "html" -> <<"html">>
      [] ext = "css" -> <<"css">>
      [] ext = "sql" -> <<"sql">>
      [] ext = "json" -> <<"json">>
      [] ext \in {"yaml", "yml"} -> <<"yaml">>
      [] ext = "md" -> <<"markdown">>
      [] OTHER -> <<"unknown">>

(* Regular expressions over atoms.  A pattern is a sequence of elements:   *)
(*   Lit(v)    the literal text v                                          *)
(*   AnyChars  .*        (any atoms but a newline)                         *)
(*   Ws        \s*                                                         *)
(*   Opt(v)    v?                                                          *)
(*   Drive     [A-Za-z]:                                                   *)
(*   Ext(S)    \.(e1|e2|...) met inside an atom, S the set of the e's      *)
Lit(v) == [t |-> "lit", v |-> v]
AnyChars == [t |-> "any"]
Ws == [t |-> "ws"]
Opt(v) == [t |-> "opt", v |-> v]
Drive == [t |-> "drive"]
Ext(S) == [t |-> "ext", v |-> S]

\* a.*b
Then(a, b) == <<Lit(<<a>>), AnyChars, Lit(<<b>>)>>

Drives == {"C:", "c:", "D:", "d:"}

FileExts == {"py", "js", "ts", "html", "css", "json", "txt", "md"}

FILE_PATTERNS ==
    << Then("read", "file"),
       Then("analyze", "file"),
       Then("open", "file"),
       <<Lit(<<"file">>), Opt(<<":">>), Ws, Drive, Lit(<<"\\">>)>>,
       <<Drive, Lit(<<"\\">>), AnyChars, Ext(FileExts)>>,
       <<Lit(<<"read", " ", "and", " ", "analyze">>)>>,
       Then("check", "file"),
       Then("review", "file") >>

REVIEW_PATTERNS ==
    << Then("review", "code"), Then("code", "review"), Then("check", "quality"),
       Then("best", "practice"), Then("code", "smell") >>

REFACTOR_PATTERNS ==
    << <<Lit(<<"refactor">>)>>, Then("improve", "code"), Then("clean", "up"),
       <<Lit(<<"restructure">>)>>, <<Lit(<<"simplify">>)>> >>

TEST_PATTERNS ==
    << Then("generate", "test"), Then("write", "test"), Then("create", "test"),
       Then("unit", "test"), Then("test", "case") >>

DOC_PATTERNS ==
    << Then("add", "docstring"), Then("document", "code"), Then("add", "comment"),
       Then("generate", "doc"), <<Lit(<<"documentation">>)>> >>

OPTIMIZE_PATTERNS ==
    << <<Lit(<<"optimize">>)>>, <<Lit(<<"performance">>)>>, <<Lit(<<"faster">>)>>,
       <<Lit(<<"efficient">>)>>, Then("speed", "up") >>

----------------------------------------------------------------------------
(* agent/nodes.py: helper functions *)

\* pat matches s from position i on (a prefix match, as re.match at i)
RECURSIVE MatchAt(_, _, _)
MatchAt(s, pat, i) ==
    IF pat = <<>> THEN TRUE
    ELSE LET e == Head(pat)
             rest == Tail(pat)
         IN CASE e.t = "lit" ->
                   OccursAt(s, e.v, i) /\ MatchAt(s, rest, i + Len(e.v))
              [] e.t = "any" ->
                   \E j \in i..(Len(s) + 1) :
                       /\ \A k \in i..(j - 1) : s[k] # "\n"
                       /\ MatchAt(s, rest, j)
              [] e.t = "ws" ->
                   \E j \in i..(Len(s) + 1) :
                       /\ \A k \in i..(j - 1) : s[k] \in Whitespace
                       /\ MatchAt(s, rest, j)
              [] e.t = "opt" ->
                   \/ MatchAt(s, rest, i)
                   \/ OccursAt(s, e.v, i) /\ MatchAt(s, rest, i + Len(e.v))
              [] e.t = "drive" ->
                   i <= Len(s) /\ s[i] \in Drives /\ MatchAt(s, rest, i + 1)
              [] e.t = "ext" ->
                   i <= Len(s) /\ DotSuffix(s[i]) \in e.v /\ MatchAt(s, rest, i + 1)

\* re.search(pattern, s)
Search(s, pat) == \E i \in 1..(Len(s) + 1) : MatchAt(s, pat, i)

\* matches_patterns(text, patterns): the text is lower-cased first
matches_patterns(text, patterns) ==
    LET text_lower == Lower(text)
    IN \E n \in 1..Len(patterns) : Search(text_lower, patterns[n])

\* [^\s'"]
NonSpace(a) == a \notin Whitespace \cup {"'", "\""}

\* the last position of the run of NonSpace atoms that starts at i (i - 1 when
\* s[i] is not one)
RECURSIVE RunEnd(_, _)
RunEnd(s, i) == IF i <= Len(s) /\ NonSpace(s[i]) THEN RunEnd(s, i + 1) ELSE i - 1

\* [^\s'"]+\.[a-zA-Z0-9]+ from position i, greedy: the positions j >= i of the
\* run at which an atom with a dot suffix ends the match.  An atom that is a
\* bare dot file needs a character of the run before it.
ExtEnds(s, i) ==
    { j \in i..RunEnd(s, i) :
        /\ DotSuffix(s[j]) # ""
        /\ (s[j] \in DotFiles => j > i) }

Max(S) == CHOOSE x \in S : \A y \in S : y <= x
Min(S) == CHOOSE x \in S : \A y \in S : x <= y

Seps == {"\\", "/"}

\* The match of path pattern n starting at position i: <<>> when it does not
\* match there
PathMatchAt(s, n, i) ==
    CASE n = 1 ->  \* ([A-Za-z]:[\\\/][^\s'"]+\.[a-zA-Z0-9]+)
           IF /\ i + 2 <= Len(s)
              /\ s[i] \in Drives /\ s[i + 1] \in Seps
              /\ ExtEnds(s, i + 2) # {}
           THEN SubSeq(s, i, Max(ExtEnds(s, i + 2))) ELSE <<>>
      [] n = 2 ->  \* ([A-Za-z]:[\\\/][^\s'"]+)
           IF /\ i + 2 <= Len(s)
              /\ s[i] \in Drives /\ s[i + 1] \in Seps
              /\ RunEnd(s, i + 2) >= i + 2
           THEN SubSeq(s, i, RunEnd(s, i + 2)) ELSE <<>>
      [] n = 3 ->  \* (\/[^\s'"]+\.[a-zA-Z0-9]+)
           IF /\ i + 1 <= Len(s)
              /\ s[i] = "/"
              /\ ExtEnds(s, i + 1) # {}
           THEN SubSeq(s, i, Max(ExtEnds(s, i + 1))) ELSE <<>>

\* extract_file_path(query): the first pattern that matches, at its leftmost
\* match; <<>> stands for None
extract_file_path(query) ==
    LET hits(n) == { i \in 1..Len(query) : PathMatchAt(query, n, i) # <<>> }
        found == { n \in 1..3 : hits(n) # {} }
    IN IF found = {} THEN <<>>
       ELSE PathMatchAt(query, Min(found), Min(hits(Min(found))))

\* os.path.basename(path)
basename(path) ==
    LET cuts == { i \in 1..Len(path) : path[i] = "/" }
    IN IF cuts = {} THEN path ELSE SubSeq(path, Max(cuts) + 1, Len(path))

\* detect_language(file_path)
detect_language(file_path) ==
    LET low == Lower(basename(file_path))
        last == IF low = <<>> THEN "" ELSE low[Len(low)]
    IN IF last \in DotFiles /\ Len(low) = 1 THEN <<"unknown">>
       ELSE CODE_EXTENSIONS(DotSuffix(last))

----------------------------------------------------------------------------
(* The text generator (agent/llm.py) and the execution of a node           *)

(* What llm.invoke(prompt) does is not the program's to decide: it returns *)
(* a response whose content is `text`, or raises an exception whose        *)
(* message is `text`.                                                      *)
Reply(text) == [ok |-> TRUE, text |-> text]
Raise(text) == [ok |-> FALSE, text |-> text]

\* llm_invoke(prompt): the dict it returns
llm_invoke(out) ==
    IF out.ok THEN [generate |-> Strip(out.text)]
    ELSE [generate |-> <<"Error: ">> \o out.text]

\* get_llm_response(prompt): the dict holds no "content" key, so the value of
\* "generate" is returned
get_llm_response(out) ==
    LET result == llm_invoke(out)
    IN result.generate

(* A node runs on an execution record e: the state dict it mutates, the    *)
(* filesystem, the histories of assignments and generator calls, and       *)
(* whether an exception has left the node uncaught.                        *)
Exec ==
    [state |-> state, disk |-> disk, writes |-> writes, llm |-> llm,
     raised |-> FALSE]

\* an exception leaves the node
RaiseFrom(e) == [e EXCEPT !.raised = TRUE]

\* state[k] = v, made by node
Assign(e, node, k, v) ==
    [e EXCEPT !.state = Put(@, k, v), !.writes = Append(@, <<node, k>>)]

\* node called get_llm_response(prompt) and the generator did `out`
Called(e, node, prompt, out) ==
    [e EXCEPT !.llm = Append(@, [node |-> node, prompt |-> prompt, out |-> out])]

\* The line that opens or closes a block of code in a prompt: three
\* backquotes, written here with apostrophes
FENCE == "'''"

----------------------------------------------------------------------------
(* agent/nodes.py: the nodes *)

valid_intents == { <<Intent[n]>> : n \in 1..Len(Intent) }

\* The prompt of the classifier (the list of the categories abridged)
intent_decision_prompt(user_query) ==
    <<"Classify this coding request into ONE category:\n- generate: create new code\n...",
      "\n\nReply with ONLY the category name.\n\nRequest: ">> \o user_query

\* The category patterns in the order the node tries them, each with the
\* intent it resolves to
PatternOrder ==
    << <<FILE_PATTERNS, FILE_READ>>,
       <<REVIEW_PATTERNS, CODE_REVIEW>>,
       <<REFACTOR_PATTERNS, REFACTOR>>,
       <<TEST_PATTERNS, TEST_GEN>>,
       <<DOC_PATTERNS, DOCUMENTATION>>,
       <<OPTIMIZE_PATTERNS, OPTIMIZE>> >>

\* The categories whose patterns match the query (positions in PatternOrder)
Matching(user_query) ==
    { n \in 1..Len(PatternOrder) : matches_patterns(user_query, PatternOrder[n][1]) }

\* intent_decision_node as it would be if the last matching category won
intent_decision_node_LastWins(e, out) ==
    LET user_query == Get(e.state, "user_query", <<>>)
        matching == Matching(user_query)
    IN IF matching # {}
       THEN Assign(e, "intent", "intent", <<PatternOrder[Max(matching)][2]>>)
       ELSE LET response == Lower(Strip(get_llm_response(out)))
                e1 == Called(e, "intent", intent_decision_prompt(user_query), out)
            IN IF response \in valid_intents
               THEN Assign(e1, "intent", "intent", response)
               ELSE Assign(e1, "intent", "intent", <<GENERATE>>)

\* intent_decision_node as it would be if it asked the generator before it
\* tried the patterns
intent_decision_node_AsksFirst(e, out) ==
    LET user_query == Get(e.state, "user_query", <<>>)
        matching == Matching(user_query)
        response == Lower(Strip(get_llm_response(out)))
        e1 == Called(e, "intent", intent_decision_prompt(user_query), out)
    IN IF matching # {}
       THEN Assign(e1, "intent", "intent", <<PatternOrder[Min(matching)][2]>>)
       ELSE IF response \in valid_intents
       THEN Assign(e1, "intent", "intent", response)
       ELSE Assign(e1, "intent", "intent", <<GENERATE>>)

\* intent_decision_node as it would be if it did not validate the reply
intent_decision_node_Unvalidated(e, out) ==
    LET user_query == Get(e.state, "user_query", <<>>)
        matching == Matching(user_query)
    IN IF matching # {}
       THEN Assign(e, "intent", "intent", <<PatternOrder[Min(matching)][2]>>)
       ELSE LET response == Lower(Strip(get_llm_response(out)))
                e1 == Called(e, "intent", intent_decision_prompt(user_query), out)
            IN Assign(e1, "intent", "intent", response)

intent_decision_node(e, out) ==
    LET user_query == Get(e.state, "user_query", <<>>)
        matching == Matching(user_query)
    IN IF matching # {}
       THEN Assign(e, "intent", "intent", <<PatternOrder[Min(matching)][2]>>)
       ELSE LET response == Lower(Strip(get_llm_response(out)))
                e1 == Called(e, "intent", intent_decision_prompt(user_query), out)
            IN IF response \in valid_intents
               THEN Assign(e1, "intent", "intent", response)
               ELSE Assign(e1, "intent", "intent", <<GENERATE>>)

\* The deny-listed fragments the query holds (positions in BLOCKED_PATHS)
BlockedIn(query) ==
    { n \in 1..Len(BLOCKED_PATHS) : Contains(Lower(query), Lower(BLOCKED_PATHS[n])) }

DeniedMessage(blocked) ==
    <<"Access denied: Cannot access '">> \o blocked \o <<"' for security reasons.">>

\* safety_check_node as it would be if it did not set the error field
safety_check_node_NoError(e) ==
    LET user_query == Get(e.state, "user_query", <<>>)
        hits == BlockedIn(user_query)
    IN IF hits # {}
       THEN LET blocked == BLOCKED_PATHS[Min(hits)]
                e1 == Assign(e, "safety", "llm_result", DeniedMessage(blocked))
            IN Assign(e1, "safety", "intent", <<COMMON>>)
       ELSE e

\* safety_check_node as it would be if it lower-cased the query in place
safety_check_node_LowersQuery(e) ==
    LET user_query == Lower(Get(e.state, "user_query", <<>>))
        e0 == Assign(e, "safety", "user_query", user_query)
        hits == BlockedIn(user_query)
    IN IF hits # {}
       THEN LET blocked == BLOCKED_PATHS[Min(hits)]
                e1 == Assign(e0, "safety", "llm_result", DeniedMessage(blocked))
                e2 == Assign(e1, "safety", "intent", <<COMMON>>)
            IN Assign(e2, "safety", "error", <<"Security blocked">>)
       ELSE e0

\* safety_check_node as it would be if it reset the error field of a query
\* it lets through
safety_check_node_ResetsError(e) ==
    LET user_query == Get(e.state, "user_query", <<>>)
        hits == BlockedIn(user_query)
    IN IF hits # {}
       THEN LET blocked == BLOCKED_PATHS[Min(hits)]
                e1 == Assign(e, "safety", "llm_result", DeniedMessage(blocked))
                e2 == Assign(e1, "safety", "intent", <<COMMON>>)
            IN Assign(e2, "safety", "error", <<"Security blocked">>)
       ELSE Assign(e, "safety", "error", <<>>)

safety_check_node(e) ==
    LET user_query == Get(e.state, "user_query", <<>>)
        hits == BlockedIn(user_query)
    IN IF hits # {}
       THEN LET blocked == BLOCKED_PATHS[Min(hits)]
                e1 == Assign(e, "safety", "llm_result", DeniedMessage(blocked))
                e2 == Assign(e1, "safety", "intent", <<COMMON>>)
            IN Assign(e2, "safety", "error", <<"Security blocked">>)
       ELSE e

understanding_node(e, out) ==
    IF "user_query" \notin DOMAIN e.state THEN RaiseFrom(e)  \* state['user_query']
    ELSE LET prompt ==
                 <<"Analyze this coding request and provide a clear, concise summary (2-3 sentences):\n\nRequest: ">>
                 \o e.state["user_query"] \o <<"\n\nSummary:">>
         IN Assign(Called(e, "understand", prompt, out), "understand",
                   "understood_problem", get_llm_response(out))

planning_node(e, out) ==
    LET prompt ==
            <<"Create a numbered step-by-step plan to solve this problem:\n\nProblem: ">>
            \o Get(e.state, "understood_problem", Get(e.state, "user_query", <<>>))
            \o <<"\n\nPlan:">>
    IN Assign(Called(e, "plan", prompt, out), "plan", "plan", get_llm_response(out))

code_generation_node(e, out) ==
    LET prompt ==
            <<"Generate clean, well-documented code for this problem:\n\nProblem: ">>
            \o Get(e.state, "understood_problem", <<>>)
            \o <<"\n\nPlan: ">> \o Get(e.state, "plan", <<>>)
            \o <<"\n\nRequirements:\n- Include clear comments\n...\n\nCode:">>
    IN Assign(Called(e, "generate_code", prompt, out), "generate_code", "code",
              get_llm_response(out))

explanation_node(e, out) ==
    LET code_to_explain ==
            IF Has(e.state, "code") THEN e.state["code"]
            ELSE Get(e.state, "user_query", <<>>)
    IN IF ~Truthy(code_to_explain)
       THEN Assign(e, "explain", "llm_result", <<"No code available to explain.">>)
       ELSE LET prompt ==
                    <<"Explain this code clearly for a developer:\n\n">>
                    \o code_to_explain
                    \o <<"\n\nProvide:\n1. What the code does (overview)\n...">>
                explanation == get_llm_response(out)
                e1 == Assign(Called(e, "explain", prompt, out), "explain",
                             "explanation", explanation)
            IN IF Has(e1.state, "code")
               THEN Assign(e1, "explain", "llm_result",
                           <<"Generated Code:\n">> \o e1.state["code"]
                           \o <<"\n\nExplanation:\n">> \o explanation)
               ELSE Assign(e1, "explain", "llm_result",
                           <<"Explanation:\n">> \o explanation)

debug_node(e, out) ==
    IF "user_query" \notin DOMAIN e.state THEN RaiseFrom(e)  \* state['user_query']
    ELSE LET prompt ==
                 <<"Debug this code and provide fixed version:\n\n">>
                 \o e.state["user_query"]
                 \o <<"\n\nProvide:\n1. Identified issues\n...">>
             fixed_code == get_llm_response(out)
             e1 == Assign(Called(e, "debug", prompt, out), "debug", "code", fixed_code)
         IN Assign(e1, "debug", "llm_result", fixed_code)

\* code_review_node as it would be if it kept the review in the code field
\* too, as the refactor handler does
code_review_node_WritesCode(e, out) ==
    LET code == IF Has(e.state, "file_content") THEN e.state["file_content"]
                ELSE Get(e.state, "user_query", <<>>)
        prompt ==
            <<"Perform a comprehensive code review:\n\n", FENCE, "\n">>
            \o Slice(code, 8000)
            \o <<"\n", FENCE, "\n\nReview for:\n1. Code Quality: Readability, naming, structure\n...">>
        review == get_llm_response(out)
        e1 == Assign(Called(e, "code_review", prompt, out), "code_review", "code",
                     review)
    IN Assign(e1, "code_review", "llm_result", <<"## Code Review\n\n">> \o review)

code_review_node(e, out) ==
    LET code == IF Has(e.state, "file_content") THEN e.state["file_content"]
                ELSE Get(e.state, "user_query", <<>>)
        prompt ==
            <<"Perform a comprehensive code review:\n\n", FENCE, "\n">>
            \o Slice(code, 8000)
            \o <<"\n", FENCE, "\n\nReview for:\n1. Code Quality: Readability, naming, structure\n...">>
        review == get_llm_response(out)
    IN Assign(Called(e, "code_review", prompt, out), "code_review", "llm_result",
              <<"## Code Review\n\n">> \o review)

refactor_node(e, out) ==
    LET code == IF Has(e.state, "file_content") THEN e.state["file_content"]
                ELSE Get(e.state, "user_query", <<>>)
        prompt ==
            <<"Refactor this code for better quality:\n\n", FENCE, "\n">>
            \o Slice(code, 8000)
            \o <<"\n", FENCE, "\n\nApply:\n1. Extract functions for repeated code\n...">>
        refactored == get_llm_response(out)
        e1 == Assign(Called(e, "refactor", prompt, out), "refactor", "code",
                     refactored)
    IN Assign(e1, "refactor", "llm_result", <<"## Refactored Code\n\n">> \o refactored)

test_generation_node(e, out) ==
    LET code == IF Has(e.state, "file_content") THEN e.state["file_content"]
                ELSE Get(e.state, "user_query", <<>>)
        language == Get(e.state, "language", <<"python">>)
        prompt ==
            <<"Generate comprehensive unit tests for this ">> \o language
            \o <<" code:\n\n", FENCE, "\n">>
            \o Slice(code, 6000)
            \o <<"\n", FENCE, "\n\nInclude:\n1. Test for normal cases\n...">>
        tests == get_llm_response(out)
    IN Assign(Called(e, "test_gen", prompt, out), "test_gen", "llm_result",
              <<"## Generated Tests\n\n">> \o tests)

documentation_node(e, out) ==
    LET code == IF Has(e.state, "file_content") THEN e.state["file_content"]
                ELSE Get(e.state, "user_query", <<>>)
        prompt ==
            <<"Add comprehensive documentation to this code:\n\n", FENCE, "\n">>
            \o Slice(code, 8000)
            \o <<"\n", FENCE, "\n\nAdd:\n1. Module/file docstring with description\n...">>
        documented == get_llm_response(out)
        e1 == Assign(Called(e, "documentation", prompt, out), "documentation",
                     "code", documented)
    IN Assign(e1, "documentation", "llm_result",
              <<"## Documented Code\n\n">> \o documented)

optimize_node(e, out) ==
    LET code == IF Has(e.state, "file_content") THEN e.state["file_content"]
                ELSE Get(e.state, "user_query", <<>>)
        prompt ==
            <<"Optimize this code for better performance:\n\n", FENCE, "\n">>
            \o Slice(code, 8000)
            \o <<"\n", FENCE, "\n\nFocus on:\n1. Algorithm efficiency (time complexity)\n...">>
        optimized == get_llm_response(out)
        e1 == Assign(Called(e, "optimize", prompt, out), "optimize", "code",
                     optimized)
    IN Assign(e1, "optimize", "llm_result", <<"## Optimized Code\n\n">> \o optimized)

\* common_node as it would be if it did not look at the error field
common_node_IgnoresError(e, out) ==
    LET prompt ==
            <<"The user asked: ">> \o Get(e.state, "user_query", <<>>)
            \o <<"\n\nThis appears to be a general question. Provide a helpful, concise response.\n...">>
        response == get_llm_response(out)
    IN Assign(Called(e, "common", prompt, out), "common", "llm_result", response)

common_node(e, out) ==
    IF Has(e.state, "error") THEN e
    ELSE LET prompt ==
                 <<"The user asked: ">> \o Get(e.state, "user_query", <<>>)
                 \o <<"\n\nThis appears to be a general question. Provide a helpful, concise response.\n...">>
             response == get_llm_response(out)
         IN Assign(Called(e, "common", prompt, out), "common", "llm_result",
                   response)

----------------------------------------------------------------------------
(* agent/nodes.py: file operations *)

\* workspace = "./workspace"
WORKSPACE == <<".", "/", "workspace">>

\* os.path.join(a, b), b not absolute
join(a, b) == a \o <<"/">> \o b

\* os.path.exists(path)
exists(d, path) == path \in DOMAIN d.files \/ path \in d.dirs

\* os.path.getsize(path)
getsize(d, path) == len(d.files[path])

\* os.makedirs(path), when it does not raise
makedirs(d, path) == [d EXCEPT !.dirs = @ \cup {path}]

\* The names of the entries of directory dir
Entries(d, dir) ==
    { SubSeq(p, Len(dir) + 2, Len(p)) :
        p \in { q \in (DOMAIN d.files) \cup d.dirs :
                  /\ Len(q) = Len(dir) + 2
                  /\ SubSeq(q, 1, Len(dir) + 1) = dir \o <<"/">> } }

\* The orders in which os.listdir may enumerate a set of names
Orders(S) ==
    { o \in [1..Cardinality(S) -> S] :
        \A i, j \in 1..Cardinality(S) : i # j => o[i] # o[j] }

(* What the filesystem does in a node: nothing raises (failAt = "none") or *)
(* the named call raises OSError with message text.  order is the order    *)
(* os.listdir enumerates in.                                               *)
FsOk(order) == [failAt |-> "none", text |-> <<>>, order |-> order]
FsFail(call) == [failAt |-> call, text |-> <<"[Errno] ", call>>, order |-> <<>>]

RECURSIVE Bullets(_)
Bullets(files) ==
    IF files = <<>> THEN <<>>
    ELSE IF Len(files) = 1 THEN <<"  - ">> \o files[1]
    ELSE <<"  - ">> \o files[1] \o <<"\n">> \o Bullets(Tail(files))

folder_list_node(e, fs) ==
    LET missing == ~exists(e.disk, WORKSPACE)
        failed == \/ missing /\ fs.failAt = "makedirs"
                  \/ fs.failAt = "listdir"
        e1 == IF missing /\ fs.failAt # "makedirs"
              THEN [e EXCEPT !.disk = makedirs(@, WORKSPACE)] ELSE e
        files == fs.order
    IN IF failed
       THEN Assign(e1, "folder_list", "llm_result",
                   <<"Error listing files: ">> \o fs.text)
       ELSE IF files = <<>>
       THEN Assign(e1, "folder_list", "llm_result", <<"Workspace is empty.">>)
       ELSE Assign(e1, "folder_list", "llm_result",
                   <<"Workspace Files:\n">> \o Bullets(files))

file_read_node(e, out1, fs, out2) ==
    LET user_query == Get(e.state, "user_query", <<>>)
        extracted == extract_file_path(user_query)
        asked == ~Truthy(extracted)
        file_path == IF asked THEN Strip(get_llm_response(out1)) ELSE extracted
        e0 == IF asked
              THEN Called(e, "file_read",
                          <<"Extract ONLY the file path from: ">> \o user_query, out1)
              ELSE e
    IN IF ~Truthy(file_path) \/ ~exists(e0.disk, file_path)
       THEN Assign(e0, "file_read", "llm_result",
                   <<"File not found: '">> \o file_path
                   \o <<"'\n\nProvide a valid path like: D:\\folder\\file.py">>)
       ELSE IF fs.failAt = "open" \/ file_path \notin DOMAIN e0.disk.files
       THEN Assign(e0, "file_read", "llm_result",
                   <<"Error reading file: ">> \o
                   (IF fs.failAt = "open" THEN fs.text ELSE <<"[Errno] ", "open">>))
       ELSE LET content == e0.disk.files[file_path]
                e1 == Assign(e0, "file_read", "file_path", file_path)
                e2 == Assign(e1, "file_read", "file_content", content)
                e3 == Assign(e2, "file_read", "language", detect_language(file_path))
                prompt ==
                    <<"Analyze this ">> \o e3.state["language"] \o <<" file: ">>
                    \o basename(file_path)
                    \o <<"\n\nUser request: ">> \o user_query
                    \o <<"\n\n", FENCE, "\n">>
                    \o Slice(content, 8000)
                    \o <<"\n", FENCE,
                          "\n\nProvide helpful analysis based on what the user wants.">>
                analysis == get_llm_response(out2)
            IN Assign(Called(e3, "file_read", prompt, out2), "file_read", "llm_result",
                      <<"File: ">> \o basename(file_path) \o <<"\n\n">> \o analysis)

file_edit_node(e, out) ==
    IF "user_query" \notin DOMAIN e.state THEN RaiseFrom(e)  \* state['user_query']
    ELSE LET prompt ==
                 <<"Modify this code based on the request:\n\nRequest: ">>
                 \o e.state["user_query"]
                 \o <<"\n\nCurrent code:\n", FENCE, "\n">>
                 \o Slice(Get(e.state, "file_content", <<>>), 8000)
                 \o <<"\n", FENCE, "\n\nReturn ONLY the modified code.">>
             updated == get_llm_response(out)
         IN Assign(Called(e, "file_edit", prompt, out), "file_edit",
                   "updated_content", updated)

\* confirm_node as it would be if it left the result alone
confirm_node_Silent(e) == e

\* confirm_node as it would be if it stored the default path in the context
confirm_node_StoresPath(e) ==
    LET file_path == Get(e.state, "file_path", <<"unknown">>)
        e1 == Assign(e, "confirm", "file_path", file_path)
    IN Assign(e1, "confirm", "llm_result",
              <<"Changes ready for: ">> \o file_path
              \o <<"\n\nReview and confirm to apply changes.">>)

confirm_node(e) ==
    LET file_path == Get(e.state, "file_path", <<"unknown">>)
    IN Assign(e, "confirm", "llm_result",
              <<"Changes ready for: ">> \o file_path
              \o <<"\n\nReview and confirm to apply changes.">>)

\* write_file_node as it would be without its try/except
write_file_node_Unguarded(e, fs) ==
    LET file_path == Get(e.state, "file_path", <<>>)
        updated_content == Get(e.state, "updated_content", <<>>)
    IN IF ~Truthy(file_path) \/ ~Truthy(updated_content)
       THEN Assign(e, "write_file", "llm_result",
                   <<"Error: No file path or content to write.">>)
       ELSE LET full_path == join(WORKSPACE, basename(file_path))
                mkfail == fs.failAt = "makedirs" /\ ~exists(e.disk, WORKSPACE)
                e1 == IF mkfail THEN e
                      ELSE [e EXCEPT !.disk = makedirs(@, WORKSPACE)]
                isdir == basename(file_path) = <<>> \/ full_path \in e1.disk.dirs
            IN IF mkfail \/ fs.failAt = "open" \/ isdir
               THEN RaiseFrom(e1)
               ELSE LET e2 == [e1 EXCEPT !.disk.files =
                                  [x \in (DOMAIN @) \cup {full_path} |->
                                      IF x = full_path THEN updated_content ELSE @[x]]]
                    IN Assign(e2, "write_file", "llm_result",
                              <<"File ", "saved", ": ">> \o full_path)

\* write_file_node as it would be if it wrote to the path it was given
write_file_node_InPlace(e, fs) ==
    LET file_path == Get(e.state, "file_path", <<>>)
        updated_content == Get(e.state, "updated_content", <<>>)
    IN IF ~Truthy(file_path) \/ ~Truthy(updated_content)
       THEN Assign(e, "write_file", "llm_result",
                   <<"Error: No file path or content to write.">>)
       ELSE LET full_path == file_path
                mkfail == fs.failAt = "makedirs" /\ ~exists(e.disk, WORKSPACE)
                e1 == IF mkfail THEN e
                      ELSE [e EXCEPT !.disk = makedirs(@, WORKSPACE)]
                isdir == basename(file_path) = <<>> \/ full_path \in e1.disk.dirs
            IN IF mkfail \/ fs.failAt = "open" \/ isdir
               THEN Assign(e1, "write_file", "llm_result",
                           <<"Error writing file: ">> \o
                           (IF fs.failAt = "none" THEN <<"[Errno] ", "open">>
                            ELSE fs.text))
               ELSE LET e2 == [e1 EXCEPT !.disk.files =
                                  [x \in (DOMAIN @) \cup {full_path} |->
                                      IF x = full_path THEN updated_content ELSE @[x]]]
                    IN Assign(e2, "write_file", "llm_result",
                              <<"File ", "saved", ": ">> \o full_path)

\* write_file_node as it would be if it checked the file path only
write_file_node_PathOnly(e, fs) ==
    LET file_path == Get(e.state, "file_path", <<>>)
        updated_content == Get(e.state, "updated_content", <<>>)
    IN IF ~Truthy(file_path)
       THEN Assign(e, "write_file", "llm_result",
                   <<"Error: No file path or content to write.">>)
       ELSE LET full_path == join(WORKSPACE, basename(file_path))
                mkfail == fs.failAt = "makedirs" /\ ~exists(e.disk, WORKSPACE)
                e1 == IF mkfail THEN e
                      ELSE [e EXCEPT !.disk = makedirs(@, WORKSPACE)]
                isdir == basename(file_path) = <<>> \/ full_path \in e1.disk.dirs
            IN IF mkfail \/ fs.failAt = "open" \/ isdir
               THEN Assign(e1, "write_file", "llm_result",
                           <<"Error writing file: ">> \o
                           (IF fs.failAt = "none" THEN <<"[Errno] ", "open">>
                            ELSE fs.text))
               ELSE LET e2 == [e1 EXCEPT !.disk.files =
                                  [x \in (DOMAIN @) \cup {full_path} |->
                                      IF x = full_path THEN updated_content ELSE @[x]]]
                    IN Assign(e2, "write_file", "llm_result",
                              <<"File ", "saved", ": ">> \o full_path)

write_file_node(e, fs) ==
    LET file_path == Get(e.state, "file_path", <<>>)
        updated_content == Get(e.state, "updated_content", <<>>)
    IN IF ~Truthy(file_path) \/ ~Truthy(updated_content)
       THEN Assign(e, "write_file", "llm_result",
                   <<"Error: No file path or content to write.">>)
       ELSE LET full_path == join(WORKSPACE, basename(file_path))
                mkfail == fs.failAt = "makedirs" /\ ~exists(e.disk, WORKSPACE)
                e1 == IF mkfail THEN e
                      ELSE [e EXCEPT !.disk = makedirs(@, WORKSPACE)]
                \* open(full_path, "w") raises when the name is empty (the
                \* path is the directory itself) or names a directory
                isdir == basename(file_path) = <<>> \/ full_path \in e1.disk.dirs
            IN IF mkfail \/ fs.failAt = "open" \/ isdir
               THEN Assign(e1, "write_file", "llm_result",
                           <<"Error writing file: ">> \o
                           (IF fs.failAt = "none" THEN <<"[Errno] ", "open">>
                            ELSE fs.text))
               ELSE LET e2 == [e1 EXCEPT !.disk.files =
                                  [x \in (DOMAIN @) \cup {full_path} |->
                                      IF x = full_path THEN updated_content ELSE @[x]]]
                    IN Assign(e2, "write_file", "llm_result",
                              <<"File ", "saved", ": ">> \o full_path)

\* write_file_node gets as far as holding the file open: it has a path and
\* a content, and the path names no directory
write_file_opens(e) ==
    LET file_path == Get(e.state, "file_path", <<>>)
        updated_content == Get(e.state, "updated_content", <<>>)
    IN /\ Truthy(file_path) /\ Truthy(updated_content)
       /\ basename(file_path) # <<>>
       /\ join(WORKSPACE, basename(file_path)) \notin e.disk.dirs

\* write_file_node up to open(full_path, "w"), when write_file_opens: the
\* workspace is there and the file is there and empty
write_file_open(e) ==
    LET full_path == join(WORKSPACE, basename(e.state["file_path"]))
    IN [e EXCEPT !.disk = [makedirs(@, WORKSPACE) EXCEPT !.files =
                              [x \in (DOMAIN @) \cup {full_path} |->
                                  IF x = full_path THEN <<>> ELSE @[x]]]]

\* write_file_node from f.write on, as append mode would do it
write_file_close_Appends(e) ==
    LET full_path == join(WORKSPACE, basename(e.state["file_path"]))
        e2 == [e EXCEPT !.disk.files[full_path] = @ \o e.state["updated_content"]]
    IN Assign(e2, "write_file", "llm_result",
              <<"File ", "saved", ": ">> \o full_path)

\* write_file_node from f.write on: the content goes to the start of the
\* file, over what another writer may have put there since the open
write_file_close(e) ==
    LET full_path == join(WORKSPACE, basename(e.state["file_path"]))
        e2 == [e EXCEPT !.disk.files[full_path] =
                  WriteOver(@, e.state["updated_content"])]
    IN Assign(e2, "write_file", "llm_result",
              <<"File ", "saved", ": ">> \o full_path)

\* folder_list_node at os.makedirs, after os.path.exists has found no
\* workspace: the call raises FileExistsError when another has made the
\* directory since
folder_list_makedirs(e) ==
    IF exists(e.disk, WORKSPACE)
    THEN Assign(e, "folder_list", "llm_result",
                <<"Error listing files: ">> \o FsFail("makedirs").text)
    ELSE [e EXCEPT !.disk = makedirs(@, WORKSPACE)]

----------------------------------------------------------------------------
(* server.py: the file endpoints *)

\* read_file(): GET /api/file/read?path=...; the response as status and JSON
\* body.  The filesystem of the model is keyed by the paths as the program
\* is given them: os.path.abspath(path) names the file that path names.
read_file(d, path, fs) ==
    IF ~Truthy(path)
    THEN [status |-> 400, error |-> <<"No path provided">>]
    ELSE LET abs_path == path
         IN IF ~exists(d, abs_path)
            THEN [status |-> 404, error |-> <<"File does not exist">>]
            ELSE IF abs_path \in d.dirs
            THEN [status |-> 400, error |-> <<"Path is a directory">>]
            ELSE IF getsize(d, abs_path) > 1024 * 1024
            THEN [status |-> 400, error |-> <<"File too large (max 1MB)">>]
            ELSE IF fs.failAt = "open"
            THEN [status |-> 500, error |-> fs.text]
            ELSE [status |-> 200, path |-> abs_path,
                  content |-> d.files[abs_path],
                  filename |-> basename(abs_path)]

\* os.path.isdir(path)
isdir(d, path) == path \in d.dirs

\* The place of a lower-cased entry name in the order of str: the names of
\* the entries of the model's directories
NameRank(name) ==
    CASE name = <<"a.py">> -> 1
      [] name = <<"lib">> -> 2
      [] name = <<"zed.txt">> -> 3

\* x comes before y by the key (not x['isDirectory'], x['name'].lower())
KeyBefore(x, y) ==
    IF x.isDirectory # y.isDirectory THEN x.isDirectory
    ELSE NameRank(Lower(x.name)) < NameRank(Lower(y.name))

\* list_files(): GET /api/files?path=...; order is the order os.listdir
\* enumerates the entries in
list_files(d, path, order) ==
    LET abs_path == path
    IN IF ~exists(d, abs_path)
       THEN [status |-> 404, error |-> <<"Path does not exist">>]
       ELSE IF ~isdir(d, abs_path)
       THEN [status |-> 400, error |-> <<"Path is not a directory">>]
       ELSE LET items == { [name |-> order[i],
                            isDirectory |-> isdir(d, join(abs_path, order[i]))] :
                           i \in 1..Len(order) }
                sorted == CHOOSE o \in Orders(items) :
                              \A i, j \in 1..Len(o) : i < j => KeyBefore(o[i], o[j])
            IN [status |-> 200, currentPath |-> abs_path, items |-> sorted]

----------------------------------------------------------------------------
(* agent/graph.py *)

\* route_intent(state)
route_intent(s) == Get(s, "intent", <<GENERATE>>)

\* The path map as it would be with the entry of one intent left out
PathMap_NoOptimize ==
    (<<GENERATE>> :> "understand") @@ (<<DEBUG>> :> "debug") @@
    (<<EXPLAIN>> :> "explain") @@ (<<COMMON>> :> "common") @@
    (<<FOLDER_LIST>> :> "folder_list") @@ (<<FILE_READ>> :> "file_read") @@
    (<<FILE_EDIT>> :> "file_edit") @@ (<<CODE_REVIEW>> :> "code_review") @@
    (<<REFACTOR>> :> "refactor") @@ (<<TEST_GEN>> :> "test_gen") @@
    (<<DOCUMENTATION>> :> "documentation")

\* The path map of the conditional edges after "safety"
PathMap ==
    (<<GENERATE>> :> "understand") @@ (<<DEBUG>> :> "debug") @@
    (<<EXPLAIN>> :> "explain") @@ (<<COMMON>> :> "common") @@
    (<<FOLDER_LIST>> :> "folder_list") @@ (<<FILE_READ>> :> "file_read") @@
    (<<FILE_EDIT>> :> "file_edit") @@ (<<CODE_REVIEW>> :> "code_review") @@
    (<<REFACTOR>> :> "refactor") @@ (<<TEST_GEN>> :> "test_gen") @@
    (<<DOCUMENTATION>> :> "documentation") @@ (<<OPTIMIZE>> :> "optimize")

\* The node the conditional edge leads to; a key the path map does not hold
\* is an error of the graph ("undefined": no node runs)
Branch(s) ==
    LET key == route_intent(s)
    IN IF key \in DOMAIN PathMap THEN PathMap[key] ELSE "undefined"

\* The edges as they would be if understand led straight to generate_code
Edge_SkipsPlan ==
    [ intent |-> "safety",
      understand |-> "generate_code", plan |-> "generate_code",
      generate_code |-> "explain", explain |-> "END",
      file_edit |-> "confirm", confirm |-> "write_file", write_file |-> "END",
      file_read |-> "END", folder_list |-> "END", debug |-> "END",
      common |-> "END", code_review |-> "END", refactor |-> "END",
      test_gen |-> "END", documentation |-> "END", optimize |-> "END" ]

\* The edges as they would be if explain led back to plan
Edge_Loops ==
    [ intent |-> "safety",
      understand |-> "plan", plan |-> "generate_code",
      generate_code |-> "explain", explain |-> "plan",
      file_edit |-> "confirm", confirm |-> "write_file", write_file |-> "END",
      file_read |-> "END", folder_list |-> "END", debug |-> "END",
      common |-> "END", code_review |-> "END", refactor |-> "END",
      test_gen |-> "END", documentation |-> "END", optimize |-> "END" ]

\* The edges as they would be if the run ended at confirm, the write being
\* left to a later confirmation
Edge_ConfirmEnds ==
    [ intent |-> "safety",
      understand |-> "plan", plan |-> "generate_code",
      generate_code |-> "explain", explain |-> "END",
      file_edit |-> "confirm", confirm |-> "END", write_file |-> "END",
      file_read |-> "END", folder_list |-> "END", debug |-> "END",
      common |-> "END", code_review |-> "END", refactor |-> "END",
      test_gen |-> "END", documentation |-> "END", optimize |-> "END" ]

\* graph.add_edge(a, b)
Edge ==
    [ intent |-> "safety",
      understand |-> "plan", plan |-> "generate_code",
      generate_code |-> "explain", explain |-> "END",
      file_edit |-> "confirm", confirm |-> "write_file", write_file |-> "END",
      file_read |-> "END", folder_list |-> "END", debug |-> "END",
      common |-> "END", code_review |-> "END", refactor |-> "END",
      test_gen |-> "END", documentation |-> "END", optimize |-> "END" ]

\* graph.add_edge(START, "intent")
EntryPoint == "intent"

----------------------------------------------------------------------------
(* Inputs *)

\* The words and phrases a query is made of
Vocabulary ==
    { <<"read">>, <<"file">>, <<"review", " ", "code">>,
      <<"refactor">>, <<"unit", " ", "test">>, <<"documentation">>,
      <<"optimize">>, <<"hello">>, <<".ENV">>,
      <<"/", "tmp", "/", "a.py">>, <<"D:", "\\", "x.py">> }

RECURSIVE SeqsUpTo(_, _)
SeqsUpTo(S, n) ==
    IF n = 0 THEN {<<>>}
    ELSE LET shorter == SeqsUpTo(S, n - 1)
         IN shorter \cup { Append(s, x) : s \in { r \in shorter : Len(r) = n - 1 }, x \in S }

Queries == { Join(w, <<" ">>) : w \in SeqsUpTo(Vocabulary, MaxQueryParts) }

\* The file context a caller may pass along (server.py chat); <<>> for none
InitPaths == { <<>>, <<"/", "tmp", "/", "a.py">> }
InitContents == { <<>>, <<"x = 1">> }

\* The filesystems a run may start on: without a workspace directory, and
\* with one that holds two files and a directory
\* /tmp/max.txt is 1,048,576 bytes long and /tmp/big.txt one byte longer
BaseFiles ==
    (<<"/", "tmp", "/", "a.py">> :> <<"def f(): pass">>)
    @@ (<<"/", "tmp", "/", "max.txt">> :>
           <<"#8000 characters#", "#1040576 more characters#">>)
    @@ (<<"/", "tmp", "/", "big.txt">> :>
           <<"#8000 characters#", "#1040577 more characters#">>)
InitDisks ==
    { [files |-> BaseFiles, dirs |-> {<<"/", "tmp">>}],
      [files |-> BaseFiles @@ (join(WORKSPACE, <<"a.py">>) :> <<"old">>)
                          @@ (join(WORKSPACE, <<"Zed.txt">>) :> <<"notes">>),
       dirs |-> {<<"/", "tmp">>, WORKSPACE, join(WORKSPACE, <<"lib">>)}] }

\* What the generator may do when asked to classify
ClassifierOutcomes ==
    { Reply(<<Intent[n]>>) : n \in 1..Len(Intent) }
    \cup { Reply(<<" ", "Debug", "\n">>), Reply(<<"COMMON">>), Reply(<<>>),
           Reply(<<"foobar">>), Raise(<<"boom">>) }

\* What the generator may do when a handler asks
HandlerOutcomes == { Reply(<<"out", "\n">>), Reply(<<" ">>), Raise(<<"boom">>) }

\* What the generator may do when asked for the file path
PathOutcomes ==
    HandlerOutcomes \cup { Reply(<<"/", "tmp", "/", "a.py", "\n">>),
                           Reply(<<"/", "tmp", "/", "big.txt">>) }

----------------------------------------------------------------------------
(* The run of the graph: code_agent.invoke(initial_state) *)

\* server.py chat and main.py main: the initial state holds the query, and
\* the file path and content when the caller gave them
InitialState(q, fp, fc) ==
    LET s0 == ("user_query" :> q)
        s1 == IF Truthy(fp) THEN Put(s0, "file_path", fp) ELSE s0
    IN IF Truthy(fc) THEN Put(s1, "file_content", fc) ELSE s1

\* There is no second invocation
Absent == [pc |-> "absent"]

Init ==
    /\ pc = EntryPoint
    /\ \E q \in Queries, fp \in InitPaths, fc \in InitContents :
          \* a caller that passes file context (server.py) refuses an empty message
          /\ (q = <<>> => fp = <<>> /\ fc = <<>>)
          /\ state = InitialState(q, fp, fc)
    /\ disk \in InitDisks
    /\ trace = <<>>
    /\ writes = <<>>
    /\ llm = <<>>
    /\ other = Absent
    /\ start = Absent

\* node has run and left e; the graph goes to next, unless an exception left
\* the node: invoke() then ends by raising it ("raised": no node runs)
Step(node, e, next) ==
    /\ state' = e.state
    /\ disk' = e.disk
    /\ writes' = e.writes
    /\ llm' = e.llm
    /\ trace' = Append(trace, node)
    /\ pc' = IF e.raised THEN "raised" ELSE next
    /\ UNCHANGED <<other, start>>

RunIntent ==
    /\ pc = "intent"
    /\ \E out \in ClassifierOutcomes :
          Step("intent", intent_decision_node(Exec, out), Edge["intent"])

RunSafety ==
    /\ pc = "safety"
    /\ LET e == safety_check_node(Exec)
       IN Step("safety", e, Branch(e.state))

RunUnderstand ==
    /\ pc = "understand"
    /\ \E out \in HandlerOutcomes :
          Step("understand", understanding_node(Exec, out), Edge["understand"])

RunPlan ==
    /\ pc = "plan"
    /\ \E out \in HandlerOutcomes :
          Step("plan", planning_node(Exec, out), Edge["plan"])

RunGenerateCode ==
    /\ pc = "generate_code"
    /\ \E out \in HandlerOutcomes :
          Step("generate_code", code_generation_node(Exec, out), Edge["generate_code"])

RunExplain ==
    /\ pc = "explain"
    /\ \E out \in HandlerOutcomes :
          Step("explain", explanation_node(Exec, out), Edge["explain"])

RunDebug ==
    /\ pc = "debug"
    /\ \E out \in HandlerOutcomes :
          Step("debug", debug_node(Exec, out), Edge["debug"])

RunCommon ==
    /\ pc = "common"
    /\ \E out \in HandlerOutcomes :
          Step("common", common_node(Exec, out), Edge["common"])

RunCodeReview ==
    /\ pc = "code_review"
    /\ \E out \in HandlerOutcomes :
          Step("code_review", code_review_node(Exec, out), Edge["code_review"])

RunRefactor ==
    /\ pc = "refactor"
    /\ \E out \in HandlerOutcomes :
          Step("refactor", refactor_node(Exec, out), Edge["refactor"])

RunTestGen ==
    /\ pc = "test_gen"
    /\ \E out \in HandlerOutcomes :
          Step("test_gen", test_generation_node(Exec, out), Edge["test_gen"])

RunDocumentation ==
    /\ pc = "documentation"
    /\ \E out \in HandlerOutcomes :
          Step("documentation", documentation_node(Exec, out), Edge["documentation"])

RunOptimize ==
    /\ pc = "optimize"
    /\ \E out \in HandlerOutcomes :
          Step("optimize", optimize_node(Exec, out), Edge["optimize"])

RunFolderList ==
    /\ pc = "folder_list"
    /\ \E fs \in { FsOk(o) : o \in Orders(Entries(disk, WORKSPACE)) }
                 \cup { FsFail("makedirs"), FsFail("listdir") } :
          Step("folder_list", folder_list_node(Exec, fs), Edge["folder_list"])

RunFileRead ==
    /\ pc = "file_read"
    /\ \E out1 \in PathOutcomes, out2 \in HandlerOutcomes,
          fs \in { FsOk(<<>>), FsFail("open") } :
          Step("file_read", file_read_node(Exec, out1, fs, out2), Edge["file_read"])

RunFileEdit ==
    /\ pc = "file_edit"
    /\ \E out \in HandlerOutcomes :
          Step("file_edit", file_edit_node(Exec, out), Edge["file_edit"])

RunConfirm ==
    /\ pc = "confirm"
    /\ Step("confirm", confirm_node(Exec), Edge["confirm"])

RunWriteFile ==
    /\ pc = "write_file"
    /\ \E fs \in { FsOk(<<>>), FsFail("makedirs"), FsFail("open") } :
          Step("write_file", write_file_node(Exec, fs), Edge["write_file"])

Next ==
    \/ RunIntent \/ RunSafety
    \/ RunUnderstand \/ RunPlan \/ RunGenerateCode \/ RunExplain
    \/ RunDebug \/ RunCommon
    \/ RunCodeReview \/ RunRefactor \/ RunTestGen \/ RunDocumentation \/ RunOptimize
    \/ RunFolderList \/ RunFileRead \/ RunFileEdit \/ RunConfirm \/ RunWriteFile

Spec == Init /\ [][Next]_vars

----------------------------------------------------------------------------
(* Two invocations, interleaved: code_agent.invoke(initial_state) called   *)
(* twice (two requests of server.py chat), each with its own context, on   *)
(* the one filesystem.  The filesystem calls succeed.                      *)

\* The queries of the two invocations: neither matches a pattern of the
\* classifier's first category, one matches a later one
Queries2 == { <<"hello">>, <<"optimize">> }

\* The file paths the callers may pass along: two of them name files of the
\* same base name in different directories
InitPaths2 == { <<>>, <<"/", "tmp", "/", "a.py">>, <<"/", "home", "/", "a.py">> }

\* What the generator may do when asked to classify: the intents whose
\* handlers use the filesystem, and one that does not
ClassifierOutcomes2 ==
    { Reply(<<FILE_EDIT>>), Reply(<<FOLDER_LIST>>), Reply(<<FILE_READ>>),
      Reply(<<COMMON>>) }

\* What the generator may do when asked for the file path: as in a single
\* run, or the path of a file of the workspace
PathOutcomes2 ==
    PathOutcomes \cup { Reply(<<".", "/", "workspace", "/", "a.py">>) }

\* The execution records node may leave when it runs on e
NodeResults(node, e) ==
    CASE node = "intent" ->
            { intent_decision_node(e, out) : out \in ClassifierOutcomes2 }
      [] node = "safety" -> { safety_check_node(e) }
      [] node = "understand" -> { understanding_node(e, out) : out \in HandlerOutcomes }
      [] node = "plan" -> { planning_node(e, out) : out \in HandlerOutcomes }
      [] node = "generate_code" ->
            { code_generation_node(e, out) : out \in HandlerOutcomes }
      [] node = "explain" -> { explanation_node(e, out) : out \in HandlerOutcomes }
      [] node = "debug" -> { debug_node(e, out) : out \in HandlerOutcomes }
      [] node = "common" -> { common_node(e, out) : out \in HandlerOutcomes }
      [] node = "code_review" -> { code_review_node(e, out) : out \in HandlerOutcomes }
      [] node = "refactor" -> { refactor_node(e, out) : out \in HandlerOutcomes }
      [] node = "test_gen" -> { test_generation_node(e, out) : out \in HandlerOutcomes }
      [] node = "documentation" ->
            { documentation_node(e, out) : out \in HandlerOutcomes }
      [] node = "optimize" -> { optimize_node(e, out) : out \in HandlerOutcomes }
      [] node = "folder_list" ->
            { folder_list_node(e, FsOk(o)) : o \in Orders(Entries(e.disk, WORKSPACE)) }
      [] node = "file_read" ->
            { file_read_node(e, out1, FsOk(<<>>), out2) :
                out1 \in PathOutcomes2, out2 \in HandlerOutcomes }
      [] node = "file_edit" -> { file_edit_node(e, out) : out \in HandlerOutcomes }
      [] node = "confirm" -> { confirm_node(e) }
      [] node = "write_file" -> { write_file_node(e, FsOk(<<>>)) }

\* The node the graph goes to after node has left e
NextNode(node, e) == IF node = "safety" THEN Branch(e.state) ELSE Edge[node]

\* The second invocation as it would be if the two requests were given the
\* same dict as their context
OtherExec_SharedContext ==
    [state |-> state, disk |-> disk, writes |-> other.writes, llm |-> other.llm,
     raised |-> FALSE]

\* The execution record of the second invocation: its own context and
\* histories, and the filesystem
OtherExec ==
    [state |-> other.state, disk |-> disk, writes |-> other.writes,
     llm |-> other.llm, raised |-> FALSE]

Init2 ==
    /\ pc = EntryPoint
    /\ \E q \in Queries2, fp \in InitPaths2 : state = InitialState(q, fp, <<>>)
    /\ \E q \in Queries2, fp \in InitPaths2 :
          other = [pc |-> EntryPoint, state |-> InitialState(q, fp, <<>>),
                   trace |-> <<>>, writes |-> <<>>, llm |-> <<>>]
    /\ disk \in InitDisks
    /\ trace = <<>>
    /\ writes = <<>>
    /\ llm = <<>>
    /\ start = [state |-> state, other |-> other.state, disk |-> disk]

\* The places inside a handler where another invocation may run
Inside == {"write_file:write", "folder_list:makedirs", "folder_list:listdir"}

(* The steps an invocation at p may take on e, when another may run        *)
(* between the filesystem calls of a handler: the record it leaves and the *)
(* place it goes to.  write_file_node opens the file, then writes it;      *)
(* folder_list_node looks for the workspace, makes it, then lists it.      *)
SubSteps(p, e) ==
    CASE p = "write_file" ->
            IF write_file_opens(e)
            THEN { [e |-> write_file_open(e), next |-> "write_file:write"] }
            ELSE { [e |-> write_file_node(e, FsOk(<<>>)), next |-> Edge[p]] }
      [] p = "write_file:write" ->
            { [e |-> write_file_close(e), next |-> Edge["write_file"]] }
      [] p = "folder_list" ->
            { [e |-> e,
               next |-> IF exists(e.disk, WORKSPACE) THEN "folder_list:listdir"
                        ELSE "folder_list:makedirs"] }
      [] p = "folder_list:makedirs" ->
            { [e |-> folder_list_makedirs(e),
               next |-> IF exists(e.disk, WORKSPACE) THEN Edge["folder_list"]
                        ELSE "folder_list:listdir"] }
      [] p = "folder_list:listdir" ->
            { [e |-> folder_list_node(e, FsOk(o)), next |-> Edge["folder_list"]] :
                o \in Orders(Entries(e.disk, WORKSPACE)) }
      [] OTHER ->
            { [e |-> e2, next |-> NextNode(p, e2)] : e2 \in NodeResults(p, e) }

\* The first invocation takes the step that is due in it
RunFirst ==
    /\ pc \in (DOMAIN Edge) \cup {"safety"} \cup Inside
    /\ \E s \in SubSteps(pc, Exec) :
          /\ state' = s.e.state
          /\ disk' = s.e.disk
          /\ writes' = s.e.writes
          /\ llm' = s.e.llm
          /\ trace' = IF pc \in Inside THEN trace ELSE Append(trace, pc)
          /\ pc' = IF s.e.raised THEN "raised" ELSE s.next
    /\ UNCHANGED <<other, start>>

\* The second invocation takes the step that is due in it
RunSecond ==
    /\ other.pc \in (DOMAIN Edge) \cup {"safety"} \cup Inside
    /\ \E s \in SubSteps(other.pc, OtherExec) :
          /\ other' = [pc |-> IF s.e.raised THEN "raised" ELSE s.next,
                       state |-> s.e.state,
                       trace |-> IF other.pc \in Inside THEN other.trace
                                 ELSE Append(other.trace, other.pc),
                       writes |-> s.e.writes,
                       llm |-> s.e.llm]
          /\ disk' = s.e.disk
    /\ UNCHANGED <<pc, state, trace, writes, llm, start>>

Next2 == RunFirst \/ RunSecond

Spec2 == Init2 /\ [][Next2]_vars

----------------------------------------------------------------------------
(* Properties *)

\* The query the run was invoked with
Query == state["user_query"]

\* The query holds a deny-listed fragment
Blocked == BlockedIn(Query) # {}

\* node has run
Ran(node) == \E i \in 1..Len(trace) : trace[i] = node

\* The position in the trace at which node ran (0 when it has not)
RanAt(node) == IF Ran(node) THEN Min({ i \in 1..Len(trace) : trace[i] = node }) ELSE 0

\* The nodes that assigned state[k], in the order of the assignments
RECURSIVE WritersIn(_, _)
WritersIn(ws, k) ==
    IF ws = <<>> THEN <<>>
    ELSE IF Head(ws)[2] = k THEN <<Head(ws)[1]>> \o WritersIn(Tail(ws), k)
    ELSE WritersIn(Tail(ws), k)
Writers(k) == WritersIn(writes, k)

\* The generator calls made by node
CallsOf(node) == { i \in 1..Len(llm) : llm[i].node = node }

(* C1: in every invocation the safety gate runs before the intent          *)
(* classifier: the classifier is entered only after the safety gate has    *)
(* run and found no deny-listed fragment in the query.                     *)
C1_SafetyBeforeClassifier ==
    Ran("intent") =>
        /\ Ran("safety")
        /\ RanAt("safety") < RanAt("intent")
        /\ ~Blocked

(* C2: for a query that holds a deny-listed fragment, no classifier (the   *)
(* pattern classifier, the generator as fallback classifier) is invoked    *)
(* during the run: at termination the classifier has not run and no        *)
(* generator call has been made.                                           *)
C2_BlockedNeverClassified ==
    (pc = "END" /\ Blocked) => ~Ran("intent") /\ Len(llm) = 0

(* C3: for a query that holds a deny-listed fragment, whatever intent the  *)
(* classifier produced, the run is dispatched to the common handler and    *)
(* ends with the result the safety gate wrote (the access-denied message   *)
(* naming the first deny-listed fragment it holds), intent common and the  *)
(* error field set; no handler after the safety gate writes the result.    *)
C3_BlockedEndsDenied ==
    (Blocked /\ Ran("safety")) =>
        /\ pc \in {"common", "END"}
        /\ (pc = "END" => trace = <<"intent", "safety", "common">>)
        /\ "llm_result" \in DOMAIN state
        /\ \E n \in 1..Len(BLOCKED_PATHS) :
              /\ Contains(Lower(Query), Lower(BLOCKED_PATHS[n]))
              /\ \A m \in 1..(n - 1) : ~Contains(Lower(Query), Lower(BLOCKED_PATHS[m]))
              /\ state["llm_result"] =
                    <<"Access denied: Cannot access '">> \o BLOCKED_PATHS[n]
                    \o <<"' for security reasons.">>
        /\ "intent" \in DOMAIN state /\ state["intent"] = <<"common">>
        /\ "error" \in DOMAIN state /\ state["error"] # <<>>
        /\ Writers("llm_result") = <<"safety">>

\* a blocked run has ended, and the classifier had resolved the query by a
\* pattern (to an intent that is not common)
C3_Witness ==
    /\ pc = "END" /\ Blocked
    /\ Matching(Query) # {}
    /\ Ran("common")

(* C4: the conditional fan-out after the safety gate is total on the       *)
(* intent set: for each of the 12 intent labels, and for a state with no   *)
(* intent (which defaults to generate), route_intent yields a key of the   *)
(* path map, and the dispatch of a run never ends in an undefined node.    *)
C4_DispatchTotal ==
    /\ pc # "undefined"
    /\ Len(Intent) = 12
    /\ \A n \in 1..Len(Intent) :
          route_intent(Put(state, "intent", <<Intent[n]>>)) \in DOMAIN PathMap
    /\ route_intent([k \in (DOMAIN state) \ {"intent"} |-> state[k]]) = <<"generate">>
    /\ <<"generate">> \in DOMAIN PathMap
    /\ (Ran("safety") => route_intent(state) \in DOMAIN PathMap)
    /\ (trace = <<"intent", "safety">> => pc = PathMap[route_intent(state)])

C4_Witness ==
    /\ trace = <<"intent", "safety">>
    /\ state["intent"] = <<"optimize">>
    /\ pc = "optimize"

(* C5: the classifier tries the pattern categories in the fixed order      *)
(* file-reference, review, refactor, test-generation, documentation,       *)
(* optimization, and the first category that matches decides the intent;   *)
(* a query that matches a review pattern and a refactor pattern and no     *)
(* file-reference pattern resolves to code_review.                         *)
C5_PatternPriority ==
    trace = <<"intent">> =>
        LET file == matches_patterns(Query, FILE_PATTERNS)
            review == matches_patterns(Query, REVIEW_PATTERNS)
            refactor == matches_patterns(Query, REFACTOR_PATTERNS)
            test == matches_patterns(Query, TEST_PATTERNS)
            doc == matches_patterns(Query, DOC_PATTERNS)
            optimize == matches_patterns(Query, OPTIMIZE_PATTERNS)
            intent == state["intent"]
        IN /\ file => intent = <<"file_read">>
           /\ (~file /\ review) => intent = <<"code_review">>
           /\ (~file /\ ~review /\ refactor) => intent = <<"refactor">>
           /\ (~file /\ ~review /\ ~refactor /\ test) => intent = <<"test_gen">>
           /\ (~file /\ ~review /\ ~refactor /\ ~test /\ doc) =>
                 intent = <<"documentation">>
           /\ (~file /\ ~review /\ ~refactor /\ ~test /\ ~doc /\ optimize) =>
                 intent = <<"optimize">>

\* the classifier has run on a query that matches a review pattern and a
\* refactor pattern and no file-reference pattern
C5_Witness ==
    /\ trace = <<"intent">>
    /\ matches_patterns(Query, REVIEW_PATTERNS)
    /\ matches_patterns(Query, REFACTOR_PATTERNS)
    /\ ~matches_patterns(Query, FILE_PATTERNS)
    /\ state["intent"] = <<"code_review">>

\* The reply of the generator to the classifier, trimmed and lower-cased;
\* a failed call gives the text "Error: <message>"
NormalReply(out) ==
    IF out.ok THEN Lower(Strip(out.text)) ELSE Lower(<<"Error: ">> \o out.text)

\* The closed intent set
IntentSet ==
    { <<"generate">>, <<"debug">>, <<"explain">>, <<"file_read">>, <<"file_edit">>,
      <<"folder_list">>, <<"code_review">>, <<"refactor">>, <<"test_gen">>,
      <<"documentation">>, <<"optimize">>, <<"common">> }

(* C6: when no pattern category matches, the intent the classifier         *)
(* resolves is the trimmed, lower-cased reply of the generator if that is  *)
(* a member of the intent set, and generate for every other reply (the     *)
(* empty string, an unknown word, the "Error: ..." text of a failed call); *)
(* the classifier always yields a member of the closed intent set.         *)
C6_FallbackClassifier ==
    trace = <<"intent">> =>
        /\ state["intent"] \in IntentSet
        /\ ~(\E P \in { FILE_PATTERNS, REVIEW_PATTERNS, REFACTOR_PATTERNS,
                         TEST_PATTERNS, DOC_PATTERNS, OPTIMIZE_PATTERNS } :
                 matches_patterns(Query, P)) =>
              /\ Len(llm) = 1 /\ llm[1].node = "intent"
              /\ LET reply == NormalReply(llm[1].out)
                 IN /\ reply \in IntentSet => state["intent"] = reply
                    /\ reply \notin IntentSet => state["intent"] = <<"generate">>
                    /\ (~llm[1].out.ok \/ reply = <<>> \/ reply = <<"foobar">>) =>
                          state["intent"] = <<"generate">>

\* the generator call of the classifier has failed
C6_Witness ==
    /\ trace = <<"intent">>
    /\ Len(llm) = 1 /\ ~llm[1].out.ok
    /\ state["intent"] = <<"generate">>

(* C7: for a query that matches a file-reference pattern and holds no      *)
(* deny-listed fragment, the intent at dispatch is file_read and the       *)
(* generator is not called to classify.                                    *)
C7_FilePatternToFileRead ==
    (matches_patterns(Query, FILE_PATTERNS) /\ ~Blocked) =>
        /\ CallsOf("intent") = {}
        /\ Ran("intent") => state["intent"] = <<"file_read">>
        /\ trace = <<"intent", "safety">> => pc = "file_read"
        /\ Len(trace) > 2 => trace[3] = "file_read"

\* the run of a query that matches a file-reference pattern and another
\* category's has been dispatched
C7_Witness ==
    /\ trace = <<"intent", "safety">>
    /\ matches_patterns(Query, FILE_PATTERNS) /\ ~Blocked
    /\ matches_patterns(Query, REVIEW_PATTERNS)
    /\ pc = "file_read"

\* The last node that has run
LastNode == trace[Len(trace)]

(* C8 as claimed: on every path the result field is written exactly once   *)
(* per invocation, by the terminal handler of the path.                    *)
C8_ResultWrittenOnce ==
    pc = "END" => Writers("llm_result") = <<LastNode>>

(* C8 as amended: on every path the result field has been written when     *)
(* the run ends.  It is written exactly once, by the terminal handler of   *)
(* the path, except on two paths: on file_edit -> confirm -> write it is   *)
(* written twice, by confirm and then by the terminal write handler; and   *)
(* when the safety gate trips, the gate's write is the only one (the       *)
(* terminal common handler does not write).                                *)
C8_ResultWrites ==
    pc = "END" =>
        /\ "llm_result" \in DOMAIN state
        /\ Writers("llm_result") =
              IF Ran("confirm") THEN <<"confirm", "write_file">>
              ELSE IF Blocked THEN <<"safety">>
              ELSE <<LastNode>>
        /\ (Ran("confirm") => LastNode = "write_file")

\* a run of the file_edit path has ended: confirm and then write wrote the
\* result
C8_Witness ==
    /\ pc = "END"
    /\ trace = <<"intent", "safety", "file_edit", "confirm", "write_file">>
    /\ Writers("llm_result") = <<"confirm", "write_file">>

(* C9: the intent field is assigned exactly once per invocation, before    *)
(* the dispatch, and never again, also when the safety gate trips.         *)
C9_IntentAssignedOnce ==
    Ran("safety") => Len(Writers("intent")) = 1

\* The nodes of the graph
Nodes == (DOMAIN Edge) \cup {"safety"}

\* The generator or the filesystem has failed during the run
SomeCallFailed == \E i \in 1..Len(llm) : ~llm[i].out.ok

FailedHandlerCalls == { i \in 1..Len(llm) : ~llm[i].out.ok /\ llm[i].node # "intent" }

(* C11 as claimed: whenever a generator call fails inside a step handler,  *)
(* the text "Error: <message>" it is converted to is, or is embedded in,   *)
(* the final result of the run, on every path.                             *)
C11_FailureInResult ==
    pc = "END" =>
        \A i \in FailedHandlerCalls :
            Contains(state["llm_result"], <<"Error: ">> \o llm[i].out.text)

(* C12 as claimed: a failed generator call ends generation for the run:    *)
(* no generator call is made after one that failed in a step handler, and  *)
(* each handler makes each of its requests at most once (file_read has two *)
(* requests, every other handler one).                                     *)
C12_FailureEndsGeneration ==
    /\ \A i \in FailedHandlerCalls : i = Len(llm)
    /\ \A node \in Nodes :
          Cardinality(CallsOf(node)) <= (IF node = "file_read" THEN 2 ELSE 1)

(* C13: on the file_edit -> confirm -> write path, when the context holds  *)
(* a file path and a non-empty updated content, the run ends either with a *)
(* write error and every file as it was, or with a result that contains    *)
(* the word "saved" and exactly one file written: the file directly under  *)
(* the working directory whose name is the last component of the original  *)
(* path, which now holds the updated content; every other file, inside and *)
(* outside the working directory, is as it was when the run started.       *)
C13_SavedUnderWorkspace ==
    ( /\ pc = "END" /\ LastNode = "write_file"
      /\ Truthy(Get(state, "file_path", <<>>))
      /\ Truthy(Get(state, "updated_content", <<>>)) ) =>
        LET file_path == state["file_path"]
            target == <<".", "/", "workspace", "/", file_path[Len(file_path)]>>
            saved == Contains(state["llm_result"], <<"saved">>)
            failed == Contains(state["llm_result"], <<"Error writing file: ">>)
        IN /\ saved # failed
           /\ \E d0 \in InitDisks :
                 /\ \A p \in DOMAIN d0.files :
                       p # target => p \in DOMAIN disk.files /\ disk.files[p] = d0.files[p]
                 /\ saved => /\ DOMAIN disk.files = (DOMAIN d0.files) \cup {target}
                             /\ disk.files[target] = state["updated_content"]
                 /\ failed => disk.files = d0.files

\* a run given the path /tmp/a.py has saved the updated content
C13_Witness ==
    /\ pc = "END" /\ LastNode = "write_file"
    /\ Get(state, "file_path", <<>>) = <<"/", "tmp", "/", "a.py">>
    /\ Contains(state["llm_result"], <<"saved">>)
    /\ disk.files[<<".", "/", "workspace", "/", "a.py">>] = state["updated_content"]
    /\ disk.files[<<"/", "tmp", "/", "a.py">>] = <<"def f(): pass">>

(* C14 as claimed: every file read enforces the ceiling of 1 MiB.  The     *)
(* read endpoint returns the content of a file of at most 1,048,576 bytes  *)
(* and answers a longer one with a size error and no content; and the      *)
(* file-read handler places no content of more than 1,048,576 bytes in the *)
(* context.                                                                *)
C14_ReadCeiling ==
    /\ \A p \in { q \in DOMAIN disk.files : Head(q) = "/" } :
          LET r == read_file(disk, p, FsOk(<<>>))
          IN IF getsize(disk, p) <= 1048576
             THEN r.status = 200 /\ r.content = disk.files[p]
             ELSE /\ r.status = 400
                  /\ r.error = <<"File too large (max 1MB)">>
                  /\ "content" \notin DOMAIN r
    /\ (pc = "END" /\ LastNode = "file_read" /\ Has(state, "file_content")) =>
          len(state["file_content"]) <= 1048576

\* The names of the entries of the workspace in the order the claim gives:
\* directories before files, each group in case-insensitive alphabetical
\* order (the order of the list endpoint)
SortedListing ==
    LET names == Entries(disk, WORKSPACE)
        items == list_files(disk, WORKSPACE, CHOOSE o \in Orders(names) : TRUE).items
    IN [i \in 1..Len(items) |-> items[i].name]

(* C15 as claimed: whatever order the filesystem enumerates the entries    *)
(* in, the listing of the folder-list handler names the entries of the     *)
(* working directory with the directories before the files and each group  *)
(* in case-insensitive alphabetical order (so that a second run against    *)
(* the unchanged directory yields the same listing).                       *)
C15_ListingOrder ==
    ( /\ pc = "END" /\ LastNode = "folder_list"
      /\ Contains(state["llm_result"], <<"Workspace Files:\n">>) ) =>
        state["llm_result"] = <<"Workspace Files:\n">> \o Bullets(SortedListing)

\* The handlers that take the file content as their input
SourceHandlers ==
    {"code_review", "refactor", "test_gen", "documentation", "optimize", "file_edit"}

\* The source text of a prompt: what stands between the lines that open and
\* close its block of code
SourceText(prompt) ==
    LET fences == { i \in 1..Len(prompt) : prompt[i] = FENCE }
    IN SubSeq(prompt, Min(fences) + 2, Max(fences) - 2)

(* C20 as claimed: every handler that takes the file content as input      *)
(* (code_review, refactor, test_gen, documentation, optimize, file_edit)   *)
(* uses the raw query text as the source text of its generator prompt      *)
(* (the first 8000 characters of it, 6000 for test_gen) whenever the       *)
(* context holds no file content or an empty one.                          *)
C20_QueryAsSource ==
    \A i \in 1..Len(llm) :
        (llm[i].node \in SourceHandlers /\ ~Has(state, "file_content")) =>
            SourceText(llm[i].prompt) =
                Slice(Query, IF llm[i].node = "test_gen" THEN 6000 ELSE 8000)

\* The chain of handlers the transition table gives an intent
Chain(intent) ==
    IF intent = <<"generate">>
    THEN <<"understand", "plan", "generate_code", "explain">>
    ELSE IF intent = <<"file_edit">>
    THEN <<"file_edit", "confirm", "write_file">>
    ELSE intent

(* C16: after the dispatch the handlers run in the fixed chains of the     *)
(* transition table: for intent generate understand, plan, generate_code,  *)
(* explain in that order; for intent file_edit file_edit, confirm,         *)
(* write_file in that order; for every other intent the one handler of     *)
(* that intent; then the run terminates, and no other handler runs.        *)
C16_FixedChains ==
    Ran("safety") =>
        LET expected == <<"intent", "safety">> \o Chain(state["intent"])
        IN /\ Len(trace) <= Len(expected)
           /\ trace = SubSeq(expected, 1, Len(trace))
           /\ pc = IF Len(trace) = Len(expected) THEN "END"
                   ELSE expected[Len(trace) + 1]

\* a run of the generate chain has terminated
C16_Witness ==
    /\ pc = "END"
    /\ state["intent"] = <<"generate">>
    /\ trace = <<"intent", "safety", "understand", "plan", "generate_code", "explain">>

(* C17: the query field is never written after creation: no step changes   *)
(* its value and no node assigns it, so in every reachable state it equals *)
(* the query the run was invoked with.                                     *)
C17_QueryNeverWritten ==
    [][ /\ "user_query" \in DOMAIN state'
        /\ state'["user_query"] = state["user_query"]
        /\ \A i \in 1..Len(writes') : writes'[i][2] # "user_query" ]_vars

\* a run whose query holds upper-case letters has ended after a handler
\* wrote other fields of the context
C17_Witness ==
    /\ pc = "END"
    /\ Query = <<"read", " ", "D:", "\\", "x.py">>
    /\ Ran("file_read")
    /\ Has(state, "llm_result")

(* C18: when the query holds no deny-listed fragment, the safety gate      *)
(* leaves every field of the context as it was before the gate ran.        *)
C18_SafetyPassesThrough ==
    [][ (pc = "safety" /\ ~Blocked) => (state' = state /\ writes' = writes) ]_vars

\* the safety gate has let a query through, with file context given
C18_Witness ==
    /\ trace = <<"intent", "safety">>
    /\ ~Blocked
    /\ Has(state, "file_content") /\ Has(state, "file_path")
    /\ state["intent"] = <<"debug">>

(* C19: the error field is written only by the safety gate, and only for a *)
(* query that holds a deny-listed fragment (no handler writes it, failed   *)
(* or not); and when the error field is set as the common handler runs,    *)
(* that handler makes no generator call and leaves the context, the result *)
(* included, as it was.                                                    *)
C19_ErrorField ==
    [][ /\ \A i \in 1..Len(writes') :
              writes'[i][2] = "error" => (writes'[i][1] = "safety" /\ Blocked)
        /\ (pc = "common" /\ Truthy(Get(state, "error", <<>>))) =>
              (llm' = llm /\ state' = state /\ writes' = writes) ]_vars

\* the common handler has run with the error field set, after the
\* classifier had asked the generator
C19_Witness ==
    /\ pc = "END" /\ LastNode = "common"
    /\ Truthy(Get(state, "error", <<>>))
    /\ Matching(Query) = {}
    /\ Len(llm) = 1 /\ llm[1].node = "intent"

\* What get_llm_response returns for the outcome out of the generator
ReplyText(out) == IF out.ok THEN Strip(out.text) ELSE <<"Error: ">> \o out.text

(* C22: when the intent resolves to code_review, the final result is the   *)
(* fixed header of the review section followed by the reply of the         *)
(* generator (the review, or the text "Error: <message>" when the call     *)
(* failed), the review handler calls the generator once, and the result is *)
(* the only field of the context the review handler writes.                *)
C22_ReviewResult ==
    (pc = "END" /\ LastNode = "code_review") =>
        /\ state["intent"] = <<"code_review">>
        /\ Cardinality(CallsOf("code_review")) = 1
        /\ \A i \in CallsOf("code_review") :
              state["llm_result"] = <<"## Code Review\n\n">> \o ReplyText(llm[i].out)
        /\ { writes[i][2] : i \in { j \in 1..Len(writes) : writes[j][1] = "code_review" } }
              = {"llm_result"}
        /\ Writers("llm_result") = <<"code_review">>

\* a review of a query that matches a review pattern, with no file context,
\* has ended after the generator failed
C22_Witness ==
    /\ pc = "END" /\ LastNode = "code_review"
    /\ matches_patterns(Query, REVIEW_PATTERNS)
    /\ DOMAIN state = {"user_query", "intent", "llm_result"}
    /\ state["llm_result"] = <<"## Code Review\n\n", "Error: ", "boom">>

(* C23: every invocation terminates.  Each step runs the node that is due, *)
(* a node of the graph that has not run before in this invocation (the     *)
(* graph is acyclic), no exception leaves it, and the sixth step at the    *)
(* latest leads to the terminal state.                                     *)
C23_Terminates ==
    [][ /\ pc \in Nodes
        /\ ~Ran(pc)
        /\ trace' = Append(trace, pc)
        /\ pc' \in Nodes \cup {"END"}
        /\ Len(trace') <= 6
        /\ Len(trace') = 6 => pc' = "END" ]_vars

\* a run of six steps, each of another node, has reached the terminal state
C23_Witness ==
    /\ pc = "END"
    /\ Len(trace) = 6
    /\ Cardinality({ trace[i] : i \in 1..Len(trace) }) = 6

(* C24: on the file_edit -> confirm -> write path, when the context holds  *)
(* no file path or the updated content is empty, the write handler writes  *)
(* nothing and creates nothing (the filesystem is as it was when the run   *)
(* started) and the final result is the error that there is no file path   *)
(* or content to write.                                                    *)
C24_NothingToWrite ==
    ( /\ pc = "END" /\ LastNode = "write_file"
      /\ ~(Has(state, "file_path") /\ Has(state, "updated_content")) ) =>
        /\ state["llm_result"] = <<"Error: No file path or content to write.">>
        /\ disk \in InitDisks

\* a run given a file path has ended at the write handler with an empty
\* updated content
C24_Witness ==
    /\ pc = "END" /\ LastNode = "write_file"
    /\ Has(state, "file_path")
    /\ "updated_content" \in DOMAIN state /\ state["updated_content"] = <<>>
    /\ state["llm_result"] = <<"Error: No file path or content to write.">>

(* C25: no node of a run on the file_edit path writes the file-path field, *)
(* so the filesystem changes on that path only if the context held a file  *)
(* path from the start; a run started with the query alone that is routed  *)
(* to file_edit ends with the error that there is no file path or content  *)
(* to write and with the filesystem as it was.                             *)
C25_PathNeverSet ==
    Ran("file_edit") =>
        /\ \A i \in 1..Len(writes) : writes[i][2] # "file_path"
        /\ disk \notin InitDisks => Has(state, "file_path")
        /\ (pc = "END" /\ ~Has(state, "file_path")) =>
              /\ state["llm_result"] = <<"Error: No file path or content to write.">>
              /\ disk \in InitDisks

\* a run started with the query alone has ended on the file_edit path, the
\* generator having returned an updated content
C25_Witness ==
    /\ pc = "END"
    /\ trace = <<"intent", "safety", "file_edit", "confirm", "write_file">>
    /\ DOMAIN state = {"user_query", "intent", "updated_content", "llm_result"}
    /\ state["updated_content"] = <<"out">>

(* C26: the confirm step never gates the write.  In every run that reaches *)
(* confirm the write handler is the node that runs next, and when the run  *)
(* ends the write handler has overwritten the message of confirm: the      *)
(* result returned is never the "Changes ready" message.                   *)
C26_ConfirmNeverGates ==
    Ran("confirm") =>
        IF LastNode = "confirm"
        THEN /\ pc = "write_file"
             /\ Contains(state["llm_result"], <<"Changes ready for: ">>)
        ELSE /\ pc = "END"
             /\ trace[RanAt("confirm") + 1] = "write_file"
             /\ LastNode = "write_file"
             /\ ~Contains(state["llm_result"], <<"Changes ready for: ">>)
             /\ Writers("llm_result")[Len(Writers("llm_result"))] = "write_file"

\* a run has ended in which the write handler, with nothing to write, has
\* overwritten the message of confirm
C26_Witness ==
    /\ pc = "END" /\ Ran("confirm")
    /\ Writers("llm_result") = <<"confirm", "write_file">>
    /\ state["llm_result"] = <<"Error: No file path or content to write.">>
    /\ ~Has(state, "file_path")

(* C28 as claimed: on the generate path the final result embeds the code   *)
(* the generate handler wrote together with its explanation, for every     *)
(* reply of the generator, the empty one included; on the direct explain   *)
(* path of a non-empty query the result is the explanation alone.          *)
C28_CodeEmbedded ==
    (pc = "END" /\ LastNode = "explain") =>
        IF Ran("generate_code")
        THEN state["llm_result"] =
                <<"Generated Code:\n">> \o state["code"]
                \o <<"\n\nExplanation:\n">> \o Get(state, "explanation", <<>>)
        ELSE Query # <<>> =>
                state["llm_result"] = <<"Explanation:\n">> \o Get(state, "explanation", <<>>)

\* The contexts a run may end with when it runs alone from node on e
RECURSIVE Alone(_, _)
Alone(node, e) ==
    IF node = "END" THEN {e.state}
    ELSE UNION { Alone(NextNode(node, e2), e2) : e2 \in NodeResults(node, e) }

\* The contexts an invocation started with context s0 on filesystem d0 may
\* end with when no other invocation runs
SoloContexts(s0, d0) ==
    Alone(EntryPoint,
          [state |-> s0, disk |-> d0, writes |-> <<>>, llm |-> <<>>, raised |-> FALSE])

\* The file the write handler writes for the context s: the base name of
\* the file path, under the working directory
Dest(s) == join(WORKSPACE, basename(s["file_path"]))

\* The files and directories an invocation has made or written so far: p
\* is its place, tr its trace and s its context.  The file it has opened
\* for writing, and the workspace when the run started without one and the
\* invocation has got past a makedirs.
Written(p, tr, s) ==
    LET wrote == \/ p = "write_file:write"
                 \/ /\ p = "END" /\ \E i \in 1..Len(tr) : tr[i] = "write_file"
                    /\ Contains(s["llm_result"], <<"saved">>)
        listed == \/ p = "folder_list:listdir"
                  \/ /\ p = "END" /\ \E i \in 1..Len(tr) : tr[i] = "folder_list"
                     /\ ~Contains(s["llm_result"], <<"Error listing files: ">>)
    IN (IF wrote THEN {Dest(s)} ELSE {})
       \cup (IF (wrote \/ listed) /\ WORKSPACE \notin start.disk.dirs
             THEN {WORKSPACE} ELSE {})

\* The files and directories an invocation has touched: the ones it has
\* made or written, the file its file-read handler has read, the workspace
\* and its entries when it has listed the folder
Touched(p, tr, ws, s) ==
    Written(p, tr, s)
    \cup (IF \E i \in 1..Len(ws) : ws[i] = <<"file_read", "file_content">>
          THEN {s["file_path"]} ELSE {})
    \cup (IF \E i \in 1..Len(tr) : tr[i] = "folder_list"
          THEN {WORKSPACE} \cup { join(WORKSPACE, n) : n \in Entries(disk, WORKSPACE) }
          ELSE {})

(* C21: when two invocations run interleaved, each on its own context, an  *)
(* invocation that has touched no file the other has written ends with a   *)
(* context, the result included, that it can end with when it runs alone   *)
(* from the same initial context on the same initial filesystem.           *)
C21_Isolated ==
    /\ (pc = "END" /\ Touched(pc, trace, writes, state)
                        \cap Written(other.pc, other.trace, other.state) = {}) =>
          state \in SoloContexts(start.state, start.disk)
    /\ (other.pc = "END" /\ Touched(other.pc, other.trace, other.writes, other.state)
                              \cap Written(pc, trace, state) = {}) =>
          other.state \in SoloContexts(start.other, start.disk)

\* both invocations have ended, from different contexts: the first has
\* saved a file in the workspace, the second has read another file
C21_Witness ==
    /\ pc = "END" /\ other.pc = "END"
    /\ start.state # start.other
    /\ Written(pc, trace, state) # {}
    /\ \E i \in 1..Len(other.writes) : other.writes[i] = <<"file_read", "file_content">>
    /\ Touched(other.pc, other.trace, other.writes, other.state)
         \cap Written(pc, trace, state) = {}
    /\ other.state \in SoloContexts(start.other, start.disk)

\* The contexts s and t hold different file paths of the same base name
SameBaseName(s, t) ==
    /\ Has(s, "file_path") /\ Has(t, "file_path")
    /\ s["file_path"] # t["file_path"]
    /\ Dest(s) = Dest(t)

(* C27 as claimed: two invocations on the file_edit path whose file paths  *)
(* differ but share the base name write to the same file of the workspace. *)
(* When one of them writes, it reports "saved" and the file then holds its *)
(* content only, whatever the other had written there; the context of the  *)
(* other is left as it was.                                                *)
C27_LastWriterWins ==
    [][ /\ ( /\ pc = "write_file:write" /\ pc' = "END"
             /\ SameBaseName(state, other.state) ) =>
              /\ Contains(state'["llm_result"], <<"saved">>)
              /\ disk'.files[Dest(state)] = state["updated_content"]
              /\ other' = other
        /\ ( /\ other.pc = "write_file:write" /\ other'.pc = "END"
             /\ SameBaseName(state, other.state) ) =>
              /\ Contains(other'.state["llm_result"], <<"saved">>)
              /\ disk'.files[Dest(other.state)] = other.state["updated_content"]
              /\ state' = state ]_vars

\* The invocation with context s has saved the file that is written for t
SavedSame(p, s, t) ==
    /\ p = "END" /\ Has(s, "file_path") /\ Has(s, "llm_result")
    /\ Has(t, "file_path")
    /\ Contains(s["llm_result"], <<"saved">>)
    /\ Dest(s) = Dest(t)

\* The file holds content c alone, or the other invocation has saved a
\* longer content to it since this one opened it and the file holds c
\* followed by the rest of that content
LastWriterFirst(c, before, after, p, s, t) ==
    \/ after = c
    \/ /\ SavedSame(p, s, t)
       /\ before = s["updated_content"]
       /\ len(before) > len(c)
       /\ after = c \o Drop(before, len(c))

(* C27 as amended: when one of the two writes, it reports "saved" and the  *)
(* context of the other is left as it was.  The file then holds its        *)
(* content only, unless the other has saved a longer content to the file   *)
(* since this one opened it: then it holds this content followed by the    *)
(* rest of the other's.                                                    *)
C27_LastWriterFirst ==
    [][ /\ (pc = "write_file:write" /\ pc' = "END") =>
              /\ Contains(state'["llm_result"], <<"saved">>)
              /\ other' = other
              /\ LastWriterFirst(state["updated_content"],
                                 disk.files[Dest(state)], disk'.files[Dest(state)],
                                 other.pc, other.state, state)
        /\ (other.pc = "write_file:write" /\ other'.pc = "END") =>
              /\ Contains(other'.state["llm_result"], <<"saved">>)
              /\ state' = state
              /\ LastWriterFirst(other.state["updated_content"],
                                 disk.files[Dest(other.state)],
                                 disk'.files[Dest(other.state)],
                                 pc, state, other.state) ]_vars

\* both invocations, given paths of the same base name in different
\* directories, have reported "saved", and the file holds the content of
\* the one followed by the rest of the content of the other
C27_Witness ==
    /\ SavedSame(pc, state, other.state)
    /\ SavedSame(other.pc, other.state, state)
    /\ SameBaseName(state, other.state)
    /\ disk.files[Dest(state)] \notin
          {state["updated_content"], other.state["updated_content"]}

====
